---- MODULE Spec2Model ----
(***************************************************************************)
(* RobStrideController (src/src/robstride.py): the 17-byte AT frame codec,  *)
(* the lock-serialised transaction _send_and_receive, the parameter access  *)
(* layer, the per-motor enabled/mode bookkeeping and the scoped session     *)
(* (__aenter__/__aexit__), run by concurrent asyncio tasks against one      *)
(* serial channel and a nondeterministic device.                            *)
(*                                                                          *)
(* One action is one run of a coroutine between two points where the event  *)
(* loop can switch tasks.  TLC integers are 32-bit signed, so a 32-bit      *)
(* unsigned quantity of the code is kept as its bytes and never formed as   *)
(* one number.                                                              *)
(***************************************************************************)
EXTENDS Integers, Sequences, FiniteSets, TLC

\* ------------------------------------------------------------ constants.py
GET_DEVICE_ID == 0
ENABLE == 3
DISABLE == 4
READ_PARAM == 17
WRITE_PARAM == 18

RESET == 0
CALIBRATION == 1
RUN == 2
UNKNOWN == 99
MotorStatus == {RESET, CALIBRATION, RUN, UNKNOWN}

OPERATION == 0
POSITION_PP == 1
VELOCITY == 2
CURRENT == 3
POSITION_CSP == 5

RUN_MODE == 28677
LOC_REF == 28694
VEL_MAX == 28708
ACC_SET == 28709
IQ_REF == 28678
SPD_REF == 28682
LIMIT_CUR == 28696
ACC_RAD == 28706
LIMIT_SPD == 28695

host_id == 253

\* ------------------------------------------------------------ bytes
Pow2(n) == 2 ^ n

Zeros(n) == [i \in 1..n |-> 0]

\* struct.pack('<H', v)
PackH(v) == << v % 256, (v \div 256) % 256 >>

\* struct.pack('>I', v): the most significant byte first
PackIBigEndian(v) ==
    << (v \div 16777216) % 256, (v \div 65536) % 256, (v \div 256) % 256, v % 256 >>

\* struct.pack('<I', v), for the values below 2^31 the model uses
PackI(v) == << v % 256, (v \div 256) % 256, (v \div 65536) % 256, (v \div 16777216) % 256 >>

\* a | b on non-negative integers
RECURSIVE BitOr(_, _)
BitOr(a, b) ==
    IF a = 0 THEN b
    ELSE IF b = 0 THEN a
    ELSE (IF a % 2 = 1 \/ b % 2 = 1 THEN 1 ELSE 0) + 2 * BitOr(a \div 2, b \div 2)

\* bytes slice b[lo:hi] of Python (0-based, hi exclusive, clipped to the length)
Slice(b, lo, hi) ==
    LET h == IF hi > Len(b) THEN Len(b) ELSE hi
    IN  IF lo >= h THEN << >> ELSE [i \in 1..(h - lo) |-> b[lo + i]]

\* ------------------------------------------------------------ float32
\* A float is kept as its IEEE-754 single fields <<sign, exponent, mantissa>>.
F32(s, e, m) == << s, e, m >>
FZero == F32(0, 0, 0)
FOne == F32(0, 127, 0)
FTwo == F32(0, 128, 0)
FThree == F32(0, 128, 4194304)
FHalf == F32(0, 126, 0)
FOneUp == F32(0, 127, 1)
FOneFar == F32(0, 127, 64)
\* float('nan')
FNaN == F32(0, 255, 4194304)

\* 3.0 + 12 ulp is within rel_tol 1e-6 of 3.0, 3.0 + 13 ulp is not
FThreeNear == F32(0, 128, 4194316)
FThreeOff == F32(0, 128, 4194317)

\* struct.pack('<f', value)
PackF(f) ==
    << f[3] % 256,
       (f[3] \div 256) % 256,
       (f[2] % 2) * 128 + (f[3] \div 65536),
       f[1] * 128 + (f[2] \div 2) >>

\* struct.unpack('<f', read_data)[0]
UnpackF(b) ==
    F32(b[4] \div 128,
        (b[4] % 128) * 2 + (b[3] \div 128),
        (b[3] % 128) * 65536 + b[2] * 256 + b[1])

FIsNaN(f) == f[2] = 255 /\ f[3] # 0
FIsInf(f) == f[2] = 255 /\ f[3] = 0
FIsZero(f) == f[2] = 0 /\ f[3] = 0
\* magnitude of a finite float as significand * 2^(exponent - 150)
FExp(f) == IF f[2] = 0 THEN 1 ELSE f[2]
FSig(f) == IF f[2] = 0 THEN f[3] ELSE 8388608 + f[3]

\* x + y where one of the operands is 0.0 (every configured offset is 0.0)
FAdd(x, y) == IF FIsZero(y) THEN x ELSE IF FIsZero(x) THEN y ELSE x

\* math.isclose(a, b, rel_tol=1e-6): a == b, or both finite and
\* |a - b| <= 1e-6 * max(|a|, |b|)
IsClose(a, b) ==
    IF FIsNaN(a) \/ FIsNaN(b) THEN FALSE
    ELSE IF a = b \/ (FIsZero(a) /\ FIsZero(b)) THEN TRUE
    ELSE IF FIsInf(a) \/ FIsInf(b) THEN FALSE
    ELSE IF a[1] # b[1] THEN FALSE
    ELSE LET hi == IF FExp(a) > FExp(b) \/ (FExp(a) = FExp(b) /\ FSig(a) >= FSig(b))
                   THEN a ELSE b
             lo == IF hi = a THEN b ELSE a
             d  == FExp(hi) - FExp(lo)
         IN  IF d >= 2 THEN FALSE
             ELSE LET big   == FSig(hi) * Pow2(d)
                      diff  == big - FSig(lo)
                  IN  diff <= 40 /\ diff * 1000000 <= big

\* ------------------------------------------------------------ frame codec
AT == << 65, 84 >>
CRLF == << 13, 10 >>

\* the four bytes in little-endian order
EncodedIdBytesLittle(can_id_29bit) ==
    << BitOr((can_id_29bit % 32) * 8, 4),
       (can_id_29bit \div Pow2(5)) % 256,
       (can_id_29bit \div Pow2(13)) % 256,
       (can_id_29bit \div Pow2(21)) % 256 >>

\* ((can_id_29bit << 3) | 0b100).to_bytes(4, 'big'), byte by byte
EncodedIdBytes(can_id_29bit) ==
    << (can_id_29bit \div Pow2(21)) % 256,
       (can_id_29bit \div Pow2(13)) % 256,
       (can_id_29bit \div Pow2(5)) % 256,
       BitOr((can_id_29bit % 32) * 8, 4) >>

\* _create_frame: can_id_29bit, after data_area2 was replaced by the host id for
\* the three control commands
CanId29bit(command_type, motor_id, data_area2) ==
    LET area2 == IF command_type \in {GET_DEVICE_ID, ENABLE, DISABLE}
                 THEN host_id ELSE data_area2
    IN  BitOr(BitOr(command_type * Pow2(24), area2 * Pow2(8)), motor_id)

\* a frame builder that encodes data_area2 as it was given, for every command
CreateFrameAsGiven(command_type, motor_id, data_area2, data_payload) ==
    LET can_id_29bit == BitOr(BitOr(command_type * Pow2(24), data_area2 * Pow2(8)), motor_id)
    IN  AT \o EncodedIdBytes(can_id_29bit) \o << 8 >> \o data_payload \o CRLF

\* _create_frame
CreateFrame(command_type, motor_id, data_area2, data_payload) ==
    LET area2 == IF command_type \in {GET_DEVICE_ID, ENABLE, DISABLE}
                 THEN host_id ELSE data_area2
        can_id_29bit == BitOr(BitOr(command_type * Pow2(24), area2 * Pow2(8)), motor_id)
    IN  AT \o EncodedIdBytes(can_id_29bit) \o << 8 >> \o data_payload \o CRLF

\* int.from_bytes(response[2:6], 'big') >> 3
CanIdOf(response) ==
    response[3] * Pow2(21) + response[4] * Pow2(13) + response[5] * Pow2(5)
        + (response[6] \div 8)

\* enable: status_val and its MotorStatus
StatusVal(response) == (CanIdOf(response) \div Pow2(22)) % 4
StatusOf(response) ==
    IF StatusVal(response) \in MotorStatus THEN StatusVal(response) ELSE UNKNOWN

\* a check of the bytes read that accepts any length
ValidResponseAnyLength(response) ==
    /\ Len(response) > 0
    /\ Slice(response, 0, 2) = AT
    /\ Slice(response, Len(response) - 2, Len(response)) = CRLF

\* _send_and_receive: the check of the bytes read
ValidResponse(response) ==
    /\ Len(response) > 0
    /\ Slice(response, 0, 2) = AT
    /\ Slice(response, Len(response) - 2, Len(response)) = CRLF
    /\ Len(response) = 17

\* _read_parameter / _write_parameter: the frames
ReadFrame(motor_id, index) ==
    CreateFrame(READ_PARAM, motor_id, host_id, PackH(index) \o Zeros(6))
WriteFrameI(motor_id, index, value) ==
    CreateFrame(WRITE_PARAM, motor_id, host_id, PackH(index) \o << 0, 0 >> \o PackI(value))
WriteFrameF(motor_id, index, value) ==
    CreateFrame(WRITE_PARAM, motor_id, host_id, PackH(index) \o << 0, 0 >> \o PackF(value))

\* _write_parameter: the frame by the type of the value; an int value v is kept
\* as << v >>, a float as its three fields
WriteFrame(motor_id, index, value) ==
    IF Len(value) = 1 THEN WriteFrameI(motor_id, index, value[1])
    ELSE WriteFrameF(motor_id, index, value)

\* ------------------------------------------------------------ configuration
\* The session's motors, in the order of the list given to __init__ (the dict
\* self.motors keeps it), and an id that is not registered.
Motors == {1, 2}
MotorOrder == << 1, 2 >>
Unregistered == 3
MotorIds == Motors \cup {Unregistered}
NMotors == Len(MotorOrder)

Tasks == {1, 2}
\* the task that runs `async with RobStrideController(...)`
Owner == 1

\* how many operation calls the callers make in one session
MaxCalls == 3

\* Optional[RunMode] None
NoMode == -1
AllRunModes == {OPERATION, POSITION_PP, VELOCITY, CURRENT, POSITION_CSP}
\* the modes the callers set (set_mode_velocity, set_mode_csp; set_mode_pp and
\* set_mode_current are the same code with another constant), and the modes
\* whose limits they apply
RunModes == {VELOCITY, POSITION_CSP}
LimitModes == {POSITION_PP, VELOCITY, POSITION_CSP}

\* RobStrideLimits; an absent field (None) is << >>, and is_none says that the
\* motor has no bundle at all (RobStride.limits is None)
Absent == << >>
RobStrideLimits(ppv, ppa, ppc, vc, va, cs, cc) ==
    [is_none |-> FALSE,
     pp_vel_max |-> ppv, pp_acc_set |-> ppa, pp_limit_cur |-> ppc,
     velocity_limit_cur |-> vc, velocity_acc_rad |-> va,
     csp_limit_spd |-> cs, csp_limit_cur |-> cc]
\* the bundle of samples/csp_sample.py (speed and current of CSP mode; the
\* fields of the other modes are absent), and a motor without a bundle as in
\* samples/current_sample.py
CspLimits == RobStrideLimits(Absent, Absent, Absent, Absent, Absent, FThree, FHalf)
NoLimits ==
    [RobStrideLimits(Absent, Absent, Absent, Absent, Absent, Absent, Absent)
        EXCEPT !.is_none = TRUE]
\* the same bundle with one of the two limits of velocity mode present
MixedLimits == [CspLimits EXCEPT !.velocity_limit_cur = FHalf]
MotorLimits == [m \in Motors |-> IF m = 1 THEN MixedLimits ELSE NoLimits]

\* RobStride.offset
Offset(m) == FZero

\* the values callers pass as setpoints
SetpointInputs == {FOne}

VARIABLES
    enabled,    \* motor -> RobStride._is_enabled
    mode,       \* motor -> RobStride._current_mode
    limits,     \* motor -> RobStride.limits
    writer,     \* "none": never opened, "open", "closed": closing or closed
    lock,       \* RobStrideController.lock: 0 free, else the task holding it
    tasks,      \* task -> the coroutine it runs and where it is suspended
    rxbuf,      \* bytes buffered in self.reader
    sess,       \* the scoped session: "new", "entering", "active", "failed", "exiting", "exited"
    calls,      \* operation calls made so far
    late,       \* bytes the device has sent that have not reached self.reader yet
    codec,      \* a call of _create_frame: its arguments, its frame, the frame decoded
    dev         \* motor -> parameter index -> the 4 bytes the motor holds for the parameter

vars == << enabled, mode, limits, writer, lock, tasks, rxbuf, sess, calls, late, codec, dev >>

\* no call of _create_frame is looked at
NoCodec == [pc |-> "none"]

\* the parameters of a motor the model follows, and what a motor holds for them
\* after power-on
DevParams == {RUN_MODE, LIMIT_CUR}
FreshMemory == [index \in DevParams |-> IF index = RUN_MODE THEN PackI(OPERATION) ELSE PackF(FZero)]

IdleTask ==
    [op |-> "none", mid |-> 0, arg |-> 0, val |-> FZero, pc |-> "idle", step |-> 0, ok |-> TRUE,
     res |-> "none", resp |-> << >>, ntx |-> 0, log |-> << >>]

Init ==
    /\ enabled = [m \in Motors |-> FALSE]
    /\ mode = [m \in Motors |-> NoMode]
    /\ limits = MotorLimits
    /\ writer = "none"
    /\ lock = 0
    /\ tasks = [t \in Tasks |-> IdleTask]
    /\ rxbuf = << >>
    /\ sess = "new"
    /\ calls = 0
    /\ late = << >>
    /\ codec = NoCodec
    /\ dev = [m \in Motors |-> FreshMemory]

\* Optional[bytes] None; the code tests responses by truth value, and b'' is
\* as false as None
NoResponse == << >>

\* ------------------------------------------------------------ operations
\* apply_*_limits: the (parameter, value) pairs of the mode's fields that are
\* present, in the order the method writes them
LimitFields(b, m) ==
    LET all ==
            IF m = POSITION_PP
            THEN << << VEL_MAX, b.pp_vel_max >>, << ACC_SET, b.pp_acc_set >>,
                    << LIMIT_CUR, b.pp_limit_cur >> >>
            ELSE IF m = VELOCITY
            THEN << << LIMIT_CUR, b.velocity_limit_cur >>, << ACC_RAD, b.velocity_acc_rad >> >>
            ELSE << << LIMIT_SPD, b.csp_limit_spd >>, << LIMIT_CUR, b.csp_limit_cur >> >>
    IN  SelectSeq(all, LAMBDA f : f[2] # Absent)

\* _check_motor_enabled
CheckMotorEnabled(motor_id) ==
    motor_id \in Motors /\ enabled[motor_id]

\* _check_motor_mode without the comparison of the mode
CheckMotorModeEnabledOnly(motor_id, required_mode) ==
    CheckMotorEnabled(motor_id)

\* _check_motor_mode
CheckMotorMode(motor_id, required_mode) ==
    CheckMotorEnabled(motor_id) /\ mode[motor_id] = required_mode

\* The frame of the transaction task record tk is about to make.
TxFrame(tk) ==
    CASE tk.op = "connect" ->
            CreateFrame(GET_DEVICE_ID, MotorOrder[tk.step + 1], 0, Zeros(8))
      [] tk.op = "enable" -> CreateFrame(ENABLE, tk.mid, 0, Zeros(8))
      [] tk.op = "disable" -> CreateFrame(DISABLE, tk.mid, 0, Zeros(8))
      [] tk.op = "set_mode" ->
            IF tk.step = 0 THEN WriteFrameI(tk.mid, RUN_MODE, tk.arg)
            ELSE ReadFrame(tk.mid, RUN_MODE)
      [] tk.op = "apply_limits" ->
            LET f == LimitFields(limits[tk.mid], tk.arg)[(tk.step \div 2) + 1]
            IN  IF tk.step % 2 = 0 THEN WriteFrameF(tk.mid, f[1], f[2])
                ELSE ReadFrame(tk.mid, f[1])
      [] tk.op = "set_pos" -> WriteFrameF(tk.mid, LOC_REF, FAdd(tk.val, Offset(tk.mid)))
      [] tk.op = "set_vel" -> WriteFrameF(tk.mid, SPD_REF, tk.val)
      [] tk.op = "set_cur" -> WriteFrameF(tk.mid, IQ_REF, tk.val)
      [] tk.op = "write_param" -> WriteFrame(tk.mid, tk.arg, tk.val)
      [] tk.op = "read_param" -> ReadFrame(tk.mid, tk.arg)
      [] tk.op = "set_float" ->
            IF tk.step = 0 THEN WriteFrameF(tk.mid, tk.arg, tk.val)
            ELSE ReadFrame(tk.mid, tk.arg)
      [] tk.op = "aexit" ->
            IF tk.step < 2 * NMotors
            THEN IF tk.step % 2 = 0
                 THEN WriteFrameF(MotorOrder[(tk.step \div 2) + 1], SPD_REF, FZero)
                 ELSE WriteFrameF(MotorOrder[(tk.step \div 2) + 1], IQ_REF, FZero)
            ELSE CreateFrame(DISABLE, MotorOrder[tk.step - 2 * NMotors + 1], 0, Zeros(8))

\* the operation returns res to its caller; the task keeps which operation it
\* was, on which motor, and how many transactions it made
Finish(tk, res) ==
    [IdleTask EXCEPT !.op = tk.op, !.mid = tk.mid, !.ntx = tk.ntx, !.res = res]
\* the operation calls _send_and_receive for its next transaction, or goes into
\* asyncio.sleep(0.1)
NextTx(tk) == [tk EXCEPT !.pc = "lock", !.step = tk.step + 1, !.ntx = tk.ntx + 1]
Sleep(tk) == [tk EXCEPT !.pc = "sleep", !.step = tk.step + 1]

\* What the rest of the program's state becomes
Effect(tk, en, md, wr, se) ==
    [task |-> tk, enabled |-> en, mode |-> md, writer |-> wr, sess |-> se]

\* disconnect that leaves the writer as it is
CloseWriterForgotten(wr) == wr

\* disconnect
CloseWriter(wr) == IF wr = "open" THEN "closed" ELSE wr

\* enable that takes any response for success, without the status test
EnableAfterAnyStatus(tk, r) ==
    IF r = NoResponse THEN Effect(Finish(tk, "false"), enabled, mode, writer, sess)
    ELSE Effect(Finish(tk, "true"), [enabled EXCEPT ![tk.mid] = TRUE], mode, writer, sess)

\* enable that sends its command once more when the first one got no response
EnableAfterRetryOnce(tk, r) ==
    IF r = NoResponse
    THEN IF tk.step = 0 THEN Effect(NextTx(tk), enabled, mode, writer, sess)
         ELSE Effect(Finish(tk, "false"), enabled, mode, writer, sess)
    ELSE IF StatusOf(r) = RUN
         THEN Effect(Finish(tk, "true"), [enabled EXCEPT ![tk.mid] = TRUE], mode, writer, sess)
         ELSE Effect(Finish(tk, "false"), enabled, mode, writer, sess)

\* enable, after its transaction returned r
EnableAfter(tk, r) ==
    IF r = NoResponse THEN Effect(Finish(tk, "false"), enabled, mode, writer, sess)
    ELSE IF StatusOf(r) = RUN
         THEN Effect(Finish(tk, "true"), [enabled EXCEPT ![tk.mid] = TRUE], mode, writer, sess)
         ELSE Effect(Finish(tk, "false"), enabled, mode, writer, sess)

\* disable that clears the enabled flag and keeps the mode
DisableAfterKeepsMode(tk, r) ==
    Effect(Finish(tk, "void"), [enabled EXCEPT ![tk.mid] = FALSE], mode, writer, sess)

\* disable that clears the local state only when the motor answered
DisableAfterOnlyIfAnswered(tk, r) ==
    IF r = NoResponse THEN Effect(Finish(tk, "void"), enabled, mode, writer, sess)
    ELSE Effect(Finish(tk, "void"), [enabled EXCEPT ![tk.mid] = FALSE],
                [mode EXCEPT ![tk.mid] = NoMode], writer, sess)

\* disable that clears the local state of every registered motor
DisableAfterAllMotors(tk, r) ==
    Effect(Finish(tk, "void"), [m \in Motors |-> FALSE],
           [m \in Motors |-> NoMode], writer, sess)

\* disable, after its transaction returned
DisableAfter(tk, r) ==
    Effect(Finish(tk, "void"), [enabled EXCEPT ![tk.mid] = FALSE],
           [mode EXCEPT ![tk.mid] = NoMode], writer, sess)

\* _set_run_mode that takes any read-back for a match
SetRunModeAfterAnyReadBack(tk, r) ==
    IF tk.step = 0 THEN Effect(Sleep(tk), enabled, mode, writer, sess)
    ELSE IF r # NoResponse /\ tk.mid \in Motors
         THEN Effect(Finish(tk, "true"), enabled, [mode EXCEPT ![tk.mid] = tk.arg], writer, sess)
         ELSE Effect(Finish(tk, "false"), enabled, mode, writer, sess)

\* _set_run_mode, after the write (step 0) or the read-back (step 1) returned r;
\* the read-back is compared by int.from_bytes(read_data[0:1], 'little'), and
\* self.motors[motor_id] raises KeyError for an id that is not registered
SetRunModeAfter(tk, r) ==
    IF tk.step = 0 THEN Effect(Sleep(tk), enabled, mode, writer, sess)
    ELSE LET read_data == IF r # NoResponse THEN Slice(r, 11, 15) ELSE NoResponse
         IN  IF read_data # NoResponse /\ read_data[1] = tk.arg
             THEN IF tk.mid \in Motors
                  THEN Effect(Finish(tk, "true"), enabled,
                              [mode EXCEPT ![tk.mid] = tk.arg], writer, sess)
                  ELSE Effect(Finish(tk, "raise"), enabled, mode, writer, sess)
             ELSE Effect(Finish(tk, "false"), enabled, mode, writer, sess)

\* a verification that takes any read-back for a match
FloatVerifiedAnyReadBack(r, value) ==
    LET read_data == IF r # NoResponse THEN Slice(r, 11, 15) ELSE NoResponse
    IN  read_data # NoResponse

\* _set_float_parameter's verdict on the read-back r of value
FloatVerified(r, value) ==
    LET read_data == IF r # NoResponse THEN Slice(r, 11, 15) ELSE NoResponse
    IN  read_data # NoResponse /\ IsClose(UnpackF(read_data), value)

\* apply_*_limits that returns at the first limit whose verification failed
ApplyLimitsAfterStopOnFailure(tk, r) ==
    LET fields == LimitFields(limits[tk.mid], tk.arg)
        f == fields[(tk.step \div 2) + 1]
    IN  IF tk.step % 2 = 0 THEN Effect(Sleep(tk), enabled, mode, writer, sess)
        ELSE LET success == tk.ok /\ FloatVerified(r, f[2])
                 tk2 == [tk EXCEPT !.ok = success]
             IN  IF success /\ (tk.step \div 2) + 1 < Len(fields)
                 THEN Effect(NextTx(tk2), enabled, mode, writer, sess)
                 ELSE Effect(Finish(tk2, IF success THEN "true" ELSE "false"),
                             enabled, mode, writer, sess)

\* apply_*_limits, after the write (even step) or the read-back (odd step) of
\* one field returned r
ApplyLimitsAfter(tk, r) ==
    LET fields == LimitFields(limits[tk.mid], tk.arg)
        f == fields[(tk.step \div 2) + 1]
    IN  IF tk.step % 2 = 0 THEN Effect(Sleep(tk), enabled, mode, writer, sess)
        ELSE LET success == tk.ok /\ FloatVerified(r, f[2])
                 tk2 == [tk EXCEPT !.ok = success]
             IN  IF (tk.step \div 2) + 1 < Len(fields)
                 THEN Effect(NextTx(tk2), enabled, mode, writer, sess)
                 ELSE Effect(Finish(tk2, IF success THEN "true" ELSE "false"),
                             enabled, mode, writer, sess)

\* a setpoint write that records the motor as disabled
SetTargetAfterDisables(tk, r) ==
    Effect(Finish(tk, "void"), [enabled EXCEPT ![tk.mid] = FALSE],
           [mode EXCEPT ![tk.mid] = NoMode], writer, sess)

\* a setpoint write that is followed by a second transaction, as a verified
\* write is
SetTargetAfterSecondTx(tk, r) ==
    IF tk.step = 0 THEN Effect(NextTx(tk), enabled, mode, writer, sess)
    ELSE Effect(Finish(tk, "void"), enabled, mode, writer, sess)

\* set_target_position / set_target_velocity / set_target_current
SetTargetAfter(tk, r) == Effect(Finish(tk, "void"), enabled, mode, writer, sess)

\* connect that judges by its last probe alone
ConnectAfterLastProbeOnly(tk, r) ==
    LET all_connected == r # NoResponse
        tk2 == [tk EXCEPT !.ok = all_connected]
    IN  IF tk.step + 1 < NMotors THEN Effect(NextTx(tk2), enabled, mode, writer, sess)
        ELSE IF all_connected THEN Effect(Finish(tk2, "true"), enabled, mode, writer, "active")
        ELSE Effect(Finish(tk2, "false"), enabled, mode, CloseWriter(writer), "failed")

\* connect, after the probe of one motor returned r
ConnectAfter(tk, r) ==
    LET all_connected == tk.ok /\ r # NoResponse
        tk2 == [tk EXCEPT !.ok = all_connected]
    IN  IF tk.step + 1 < NMotors THEN Effect(NextTx(tk2), enabled, mode, writer, sess)
        ELSE IF all_connected THEN Effect(Finish(tk2, "true"), enabled, mode, writer, "active")
        ELSE Effect(Finish(tk2, "false"), enabled, mode, CloseWriter(writer), "failed")

\* __aexit__ that gives the teardown up at the first transaction without a
\* response
AexitAfterStopOnFailure(tk, r) ==
    IF r = NoResponse
    THEN Effect(Finish(tk, "void"), enabled, mode, CloseWriter(writer), "exited")
    ELSE IF tk.step < 2 * NMotors - 1 THEN Effect(NextTx(tk), enabled, mode, writer, sess)
    ELSE IF tk.step = 2 * NMotors - 1 THEN Effect(Sleep(tk), enabled, mode, writer, sess)
    ELSE LET m == MotorOrder[tk.step - 2 * NMotors + 1]
             en == [enabled EXCEPT ![m] = FALSE]
             md == [mode EXCEPT ![m] = NoMode]
         IN  IF tk.step < 3 * NMotors - 1 THEN Effect(NextTx(tk), en, md, writer, sess)
             ELSE Effect(Finish(tk, "void"), en, md, CloseWriter(writer), "exited")

\* __aexit__ that shuts the motors down one by one: zero setpoints and disable
\* of a motor before the zero setpoints of the next
AexitAfterMotorByMotor(tk, r) ==
    IF tk.step < 2 * NMotors
    THEN IF tk.step % 2 = 0 THEN Effect(NextTx(tk), enabled, mode, writer, sess)
         ELSE Effect([NextTx(tk) EXCEPT !.step = 2 * NMotors + (tk.step \div 2)],
                     enabled, mode, writer, sess)
    ELSE LET m == MotorOrder[tk.step - 2 * NMotors + 1]
             en == [enabled EXCEPT ![m] = FALSE]
             md == [mode EXCEPT ![m] = NoMode]
         IN  IF tk.step < 3 * NMotors - 1
             THEN Effect([NextTx(tk) EXCEPT !.step = 2 * (tk.step - 2 * NMotors + 1)],
                         en, md, writer, sess)
             ELSE Effect(Finish(tk, "void"), en, md, CloseWriter(writer), "exited")

\* __aexit__, after one of its transactions returned: the zero setpoints of every
\* motor, asyncio.sleep(0.1), the disable of every motor, then disconnect
AexitAfter(tk, r) ==
    IF tk.step < 2 * NMotors - 1 THEN Effect(NextTx(tk), enabled, mode, writer, sess)
    ELSE IF tk.step = 2 * NMotors - 1 THEN Effect(Sleep(tk), enabled, mode, writer, sess)
    ELSE LET m == MotorOrder[tk.step - 2 * NMotors + 1]
             en == [enabled EXCEPT ![m] = FALSE]
             md == [mode EXCEPT ![m] = NoMode]
         IN  IF tk.step < 3 * NMotors - 1 THEN Effect(NextTx(tk), en, md, writer, sess)
             ELSE Effect(Finish(tk, "void"), en, md, CloseWriter(writer), "exited")

\* _write_parameter returns the result of its transaction as it is
WriteParameterAfter(tk, r) ==
    Effect([Finish(tk, "value") EXCEPT !.resp = r], enabled, mode, writer, sess)

\* _read_parameter returns response[11:15], or None
ReadParameterAfter(tk, r) ==
    Effect([Finish(tk, "value") EXCEPT !.resp = IF r # NoResponse THEN Slice(r, 11, 15)
                                                 ELSE NoResponse],
           enabled, mode, writer, sess)

\* _set_float_parameter, after the write (step 0) or the read-back (step 1)
\* returned r
SetFloatParameterAfter(tk, r) ==
    IF tk.step = 0 THEN Effect(Sleep(tk), enabled, mode, writer, sess)
    ELSE Effect(Finish(tk, IF FloatVerified(r, tk.val) THEN "true" ELSE "false"),
                enabled, mode, writer, sess)

\* The caller of _send_and_receive goes on with its result r, up to the next
\* point where it waits.
After(tk, r) ==
    CASE tk.op = "connect" -> ConnectAfter(tk, r)
      [] tk.op = "enable" -> EnableAfter(tk, r)
      [] tk.op = "disable" -> DisableAfter(tk, r)
      [] tk.op = "set_mode" -> SetRunModeAfter(tk, r)
      [] tk.op = "apply_limits" -> ApplyLimitsAfter(tk, r)
      [] tk.op \in {"set_pos", "set_vel", "set_cur"} -> SetTargetAfter(tk, r)
      [] tk.op = "aexit" -> AexitAfter(tk, r)
      [] tk.op = "write_param" -> WriteParameterAfter(tk, r)
      [] tk.op = "read_param" -> ReadParameterAfter(tk, r)
      [] tk.op = "set_float" -> SetFloatParameterAfter(tk, r)

\* ------------------------------------------------------------ the device
\* The motors behind the adapter are not code of the repository: the device
\* answers a request with any frame of the protocol's shapes, late or never.
ReqCmd(req) == CanIdOf(req) \div Pow2(24)
ReqMotor(req) == CanIdOf(req) % 256
ReqIndex(req) == req[8] + 256 * req[9]

\* a feedback frame (type 2) of a motor: status in bits 22..23 of the 29-bit id
Feedback(motor_id, status) ==
    AT \o EncodedIdBytes(BitOr(BitOr(BitOr(2 * Pow2(24), status * Pow2(22)),
                                     motor_id * Pow2(8)), host_id))
       \o << 8 >> \o Zeros(8) \o CRLF

\* the answer to a parameter read: the index, two zero bytes, the value slot
ParamReply(motor_id, index, value4) ==
    AT \o EncodedIdBytes(BitOr(BitOr(READ_PARAM * Pow2(24), host_id * Pow2(8)), motor_id))
       \o << 8 >> \o PackH(index) \o << 0, 0 >> \o value4 \o CRLF

\* the answer to GetDeviceId: type 0, the motor's id, 0xFE
DeviceIdReply(motor_id) ==
    AT \o EncodedIdBytes(BitOr(motor_id * Pow2(8), 254)) \o << 8 >> \o Zeros(8) \o CRLF

\* bytes that are no frame: a truncated frame, a frame with a wrong header
Truncated == AT \o CRLF
BadHeader == << 66, 84 >> \o Zeros(13) \o CRLF
Malformed == {Truncated, BadHeader}

\* the values a parameter of the device may hold
StoredValues(index) ==
    IF index = RUN_MODE
    THEN {PackI(v) : v \in {OPERATION} \cup RunModes \cup {VELOCITY + 256}}
    ELSE {PackF(v) : v \in {FZero, FThree, FHalf, FThreeNear, FThreeOff}}

Replies(req) ==
    LET cmd == ReqCmd(req)
        m == ReqMotor(req)
    IN  Malformed \cup
        (CASE cmd = GET_DEVICE_ID -> {DeviceIdReply(m)}
           [] cmd = ENABLE -> {Feedback(m, s) : s \in 0..3}
           [] cmd = DISABLE -> {Feedback(m, RESET)}
           [] cmd = WRITE_PARAM -> {Feedback(m, RUN)}
           [] cmd = READ_PARAM -> {ParamReply(m, ReqIndex(req), v) : v \in StoredValues(ReqIndex(req))}
           [] OTHER -> {})

\* The device answers the request of the transaction that is reading, once, with
\* one of the frames above; when it stays silent the read times out.
DeviceReply(t) ==
    /\ tasks[t].pc = "read"
    /\ writer = "open"
    /\ rxbuf = << >>
    /\ \E reply \in Replies(TxFrame(tasks[t])) : rxbuf' = rxbuf \o reply
    /\ UNCHANGED << enabled, mode, limits, writer, lock, tasks, sess, calls, late, codec, dev >>

\* ------------------------------------------------------------ the transaction
\* StreamReader.readuntil(b'\r\n'): the position after the first terminator in
\* the buffer, 0 when it holds none
RECURSIVE FindCRLF(_, _)
FindCRLF(buf, i) ==
    IF i + 1 > Len(buf) THEN 0
    ELSE IF buf[i] = 13 /\ buf[i + 1] = 10 THEN i + 1
    ELSE FindCRLF(buf, i + 1)

\* the caller of t's transaction goes on with r; the lock is released
Return(t, tk, r) ==
    LET e == After(tk, r)
    IN  /\ tasks' = [tasks EXCEPT ![t] = e.task]
        /\ enabled' = e.enabled
        /\ mode' = e.mode
        /\ writer' = e.writer
        /\ sess' = e.sess
        /\ lock' = 0

\* a lock that lets a second task in
CanAcquireHeldLock(t) == TRUE

\* `async with self.lock`: the lock is free
CanAcquire(t) == lock = 0

\* a channel that is taken for open in every state
WriterOpenAlways == TRUE

\* `self.writer and not self.writer.is_closing()`
WriterOpen == writer = "open"

\* the lock is taken, then the check that the serial connection is open
Acquire(t) ==
    /\ tasks[t].pc = "lock"
    /\ CanAcquire(t)
    /\ LET tk == tasks[t]
       IN  IF ~WriterOpen
           THEN Return(t, tk, NoResponse)
           ELSE /\ tasks' = [tasks EXCEPT ![t] = [tk EXCEPT !.pc = "drain"]]
                /\ lock' = t
                /\ UNCHANGED << enabled, mode, writer, sess >>
    /\ UNCHANGED << limits, rxbuf, calls, late, codec, dev >>

\* the stale-buffer drain found the buffer empty for 1 ms; writer.write(frame)
DrainWrite(t) ==
    /\ tasks[t].pc = "drain"
    /\ rxbuf' = << >>
    /\ IF WriterOpen
       THEN LET frame == TxFrame(tasks[t])
            IN  /\ tasks' = [tasks EXCEPT ![t] = [tasks[t] EXCEPT
                                !.pc = "read", !.log = Append(tasks[t].log, frame)]]
                /\ UNCHANGED << enabled, mode, writer, sess, lock >>
       ELSE Return(t, tasks[t], NoResponse)
    /\ UNCHANGED << limits, calls, late, codec, dev >>

\* readuntil returned the bytes up to the first terminator
ReadResponse(t) ==
    /\ tasks[t].pc = "read"
    /\ FindCRLF(rxbuf, 1) > 0
    /\ LET n == FindCRLF(rxbuf, 1)
           response == SubSeq(rxbuf, 1, n)
       IN  /\ rxbuf' = SubSeq(rxbuf, n + 1, Len(rxbuf))
           /\ Return(t, tasks[t], IF ValidResponse(response) THEN response ELSE NoResponse)
    /\ UNCHANGED << limits, calls, late, codec, dev >>

\* asyncio.TimeoutError after 1.0 s without a terminator
ReadTimeout(t) ==
    /\ tasks[t].pc = "read"
    /\ FindCRLF(rxbuf, 1) = 0
    /\ Return(t, tasks[t], NoResponse)
    /\ UNCHANGED << limits, rxbuf, calls, late, codec, dev >>

\* asyncio.sleep(0.1) is over
SleepDone(t) ==
    /\ tasks[t].pc = "sleep"
    /\ tasks' = [tasks EXCEPT ![t] = [tasks[t] EXCEPT !.pc = "lock", !.ntx = tasks[t].ntx + 1]]
    /\ UNCHANGED << enabled, mode, limits, writer, lock, rxbuf, sess, calls, late, codec, dev >>

\* ------------------------------------------------------------ the calls
\* A caller calls an operation (pc "call"); the operation then runs from its
\* first line to its first transaction (pc "lock") or to its return.
Invoke(op, m, arg, val) ==
    [IdleTask EXCEPT !.op = op, !.mid = m, !.arg = arg, !.val = val, !.pc = "call"]
Begin(tk) == [tk EXCEPT !.pc = "lock", !.ntx = 1]

\* a caller may call an operation: it holds the controller and runs nothing else
MayCall(t) ==
    /\ tasks[t].pc = "idle"
    /\ calls < MaxCalls
    /\ sess \in {"new", "active", "failed", "exited"}

Call(t, op, m, arg, val) ==
    /\ MayCall(t)
    /\ tasks' = [tasks EXCEPT ![t] = Invoke(op, m, arg, val)]
    /\ calls' = calls + 1
    /\ UNCHANGED << enabled, mode, limits, writer, lock, rxbuf, sess, late, codec, dev >>

Started(t, tk) ==
    /\ tasks' = [tasks EXCEPT ![t] = tk]
    /\ UNCHANGED << enabled, mode, limits, writer, lock, rxbuf, sess, calls, late, codec, dev >>

\* enable, up to its transaction
StartEnable(t) ==
    /\ tasks[t].pc = "call" /\ tasks[t].op = "enable"
    /\ Started(t, IF tasks[t].mid \notin Motors THEN Finish(tasks[t], "false")
                  ELSE Begin(tasks[t]))

\* disable, up to its transaction
StartDisable(t) ==
    /\ tasks[t].pc = "call" /\ tasks[t].op = "disable"
    /\ Started(t, IF tasks[t].mid \notin Motors THEN Finish(tasks[t], "void")
                  ELSE Begin(tasks[t]))

\* set_mode_pp / set_mode_velocity / set_mode_current / set_mode_csp ->
\* _set_run_mode, up to the write of the run mode
StartSetMode(t) ==
    /\ tasks[t].pc = "call" /\ tasks[t].op = "set_mode"
    /\ Started(t, Begin(tasks[t]))

\* apply_pp_limits / apply_velocity_limits / apply_csp_limits, up to the write of
\* the first field that is present
StartApplyLimits(t) ==
    /\ tasks[t].pc = "call" /\ tasks[t].op = "apply_limits"
    /\ LET tk == tasks[t]
       IN  Started(t, IF ~CheckMotorMode(tk.mid, tk.arg) THEN Finish(tk, "false")
                      ELSE IF limits[tk.mid].is_none THEN Finish(tk, "true")
                      ELSE IF LimitFields(limits[tk.mid], tk.arg) = << >>
                           THEN Finish(tk, "true")
                           ELSE Begin(tk))

\* set_target_position / set_target_velocity / set_target_current, up to the write
StartSetTarget(t) ==
    /\ tasks[t].pc = "call" /\ tasks[t].op \in {"set_pos", "set_vel", "set_cur"}
    /\ Started(t, IF tasks[t].mid \notin Motors THEN Finish(tasks[t], "void")
                  ELSE Begin(tasks[t]))

\* disconnect, called by a caller
StartDisconnect(t) ==
    /\ tasks[t].pc = "call" /\ tasks[t].op = "disconnect"
    /\ writer' = CloseWriter(writer)
    /\ tasks' = [tasks EXCEPT ![t] = Finish(tasks[t], "void")]
    /\ UNCHANGED << enabled, mode, limits, lock, rxbuf, sess, calls, late, codec, dev >>

\* __aenter__ -> connect: the serial port opens, or does not
Connect(t) ==
    /\ t = Owner
    /\ sess = "new"
    /\ tasks[t].pc = "idle"
    /\ \E opened \in BOOLEAN :
          IF opened
          THEN /\ writer' = "open"
               /\ sess' = "entering"
               /\ tasks' = [tasks EXCEPT ![t] = Begin(Invoke("connect", 0, 0, FZero))]
          ELSE /\ writer' = writer
               /\ sess' = "failed"
               /\ tasks' = [tasks EXCEPT ![t] = Finish(Invoke("connect", 0, 0, FZero), "false")]
    /\ UNCHANGED << enabled, mode, limits, lock, rxbuf, calls, late, codec, dev >>

\* __aexit__: the body of the `async with` is left, its operations have returned
Aexit(t) ==
    /\ t = Owner
    /\ sess = "active"
    /\ \A u \in Tasks : tasks[u].pc = "idle"
    /\ IF writer = "open"
       THEN /\ tasks' = [tasks EXCEPT ![t] = Begin(Invoke("aexit", 0, 0, FZero))]
            /\ sess' = "exiting"
            /\ writer' = writer
       ELSE /\ tasks' = [tasks EXCEPT ![t] = Finish(Invoke("aexit", 0, 0, FZero), "void")]
            /\ sess' = "exited"
            /\ writer' = CloseWriter(writer)
    /\ UNCHANGED << enabled, mode, limits, lock, rxbuf, calls, late, codec, dev >>

Next ==
    \/ \E t \in Tasks :
          \/ Connect(t)
          \/ Aexit(t)
          \/ Call(t, "disconnect", 0, 0, FZero)
          \/ \E m \in MotorIds :
                \/ Call(t, "enable", m, 0, FZero)
                \/ Call(t, "disable", m, 0, FZero)
                \/ \E md \in RunModes : Call(t, "set_mode", m, md, FZero)
                \/ \E md \in LimitModes : Call(t, "apply_limits", m, md, FZero)
                \/ \E op \in {"set_pos", "set_vel", "set_cur"}, v \in SetpointInputs :
                      Call(t, op, m, 0, v)
          \/ StartEnable(t)
          \/ StartDisable(t)
          \/ StartSetMode(t)
          \/ StartApplyLimits(t)
          \/ StartSetTarget(t)
          \/ StartDisconnect(t)
          \/ Acquire(t)
          \/ DrainWrite(t)
          \/ ReadResponse(t)
          \/ ReadTimeout(t)
          \/ SleepDone(t)
          \/ DeviceReply(t)

Spec == Init /\ [][Next]_vars

\* ------------------------------------------------------------ the transport alone
\* The parameter access layer (_write_parameter, _read_parameter) called directly
\* on a session whose channel was never opened, is open, or has been closed,
\* against a device that also answers late, sends bytes of other shapes, and a
\* serial port whose I/O can fail.
LongFrame == AT \o Zeros(14) \o CRLF
Partial == AT \o << 0 >>
\* a 17-byte feedback frame of motor m whose payload holds the bytes 0x0D 0x0A
TerminatorInside(m) ==
    SubSeq(Feedback(m, RUN), 1, 7) \o << 0, 13, 10, 0, 0, 0, 0, 0 >> \o CRLF
RepliesT(req) == Replies(req) \cup {LongFrame, Partial, TerminatorInside(ReqMotor(req))}

\* the parameters and the value the callers of the layer use
ParamInputs == {LIMIT_CUR}
ParamValue == FHalf
\* an int value, and a value that is neither an int nor a float
ParamInt == 258
NotANumber == << >>
ParamValues == {ParamValue, << ParamInt >>, NotANumber}

InitT ==
    /\ enabled = [m \in Motors |-> FALSE]
    /\ mode = [m \in Motors |-> NoMode]
    /\ limits = MotorLimits
    /\ writer \in {"none", "open", "closed"}
    /\ sess = (IF writer = "none" THEN "new" ELSE "active")
    /\ lock = 0
    /\ tasks = [t \in Tasks |-> IdleTask]
    /\ rxbuf = << >>
    /\ calls = 0
    /\ late = << >>
    /\ codec = NoCodec
    /\ dev = [m \in Motors |-> FreshMemory]

\* _write_parameter / _read_parameter, up to the transaction
StartParam(t) ==
    /\ tasks[t].pc = "call" /\ tasks[t].op \in {"write_param", "read_param"}
    /\ Started(t, IF tasks[t].op = "write_param" /\ tasks[t].val = NotANumber
                  THEN Finish(tasks[t], "value")
                  ELSE Begin(tasks[t]))

\* the device answers the transaction that is reading, in time
DeviceReplyT(t) ==
    /\ tasks[t].pc = "read"
    /\ writer = "open"
    /\ rxbuf = << >>
    /\ late = << >>
    /\ \E reply \in RepliesT(TxFrame(tasks[t])) : rxbuf' = rxbuf \o reply
    /\ UNCHANGED << enabled, mode, limits, writer, lock, tasks, sess, calls, late, codec, dev >>

\* the device answers the transaction that is reading, but its bytes are still
\* on their way
DeviceSendsLate(t) ==
    /\ tasks[t].pc = "read"
    /\ writer = "open"
    /\ rxbuf = << >>
    /\ late = << >>
    /\ \E reply \in Replies(TxFrame(tasks[t])) : late' = reply
    /\ UNCHANGED << enabled, mode, limits, writer, lock, tasks, rxbuf, sess, calls, codec, dev >>

\* the bytes on their way reach the reader's buffer
Arrive ==
    /\ late # << >>
    /\ writer = "open"
    /\ rxbuf' = rxbuf \o late
    /\ late' = << >>
    /\ UNCHANGED << enabled, mode, limits, writer, lock, tasks, sess, calls, codec, dev >>

\* `except Exception`: the write or the read raised
IOError(t) ==
    /\ tasks[t].pc \in {"drain", "read"}
    /\ Return(t, tasks[t], NoResponse)
    /\ UNCHANGED << limits, rxbuf, calls, late, codec, dev >>

NextT ==
    \/ \E t \in Tasks :
          \/ \E m \in Motors, index \in ParamInputs :
                \/ \E value \in ParamValues : Call(t, "write_param", m, index, value)
                \/ Call(t, "read_param", m, index, FZero)
          \/ StartParam(t)
          \/ Acquire(t)
          \/ DrainWrite(t)
          \/ ReadResponse(t)
          \/ ReadTimeout(t)
          \/ IOError(t)
          \/ DeviceReplyT(t)
          \/ DeviceSendsLate(t)
    \/ Arrive

SpecTransport == InitT /\ [][NextT]_vars

\* ------------------------------------------------------------ motors that keep their parameters
\* The operations on an open session against motors that store what is written
\* to a parameter and return it on a read, over a bus where a request or a
\* response can be lost and a response can come late.
FloatInputs == {FHalf, FNaN}
\* how many operation calls the callers make on these motors
MaxDeviceCalls == 2

\* a session in use: motor 1 is either as at the start, or was put in velocity
\* mode and enabled
InitD ==
    /\ \E running \in BOOLEAN :
          /\ enabled = [m \in Motors |-> running /\ m = 1]
          /\ mode = [m \in Motors |-> IF running /\ m = 1 THEN VELOCITY ELSE NoMode]
          /\ dev = [m \in Motors |->
                      IF running /\ m = 1 THEN [FreshMemory EXCEPT ![RUN_MODE] = PackI(VELOCITY)]
                      ELSE FreshMemory]
    /\ limits = MotorLimits
    /\ writer = "open"
    /\ sess = "active"
    /\ lock = 0
    /\ tasks = [t \in Tasks |-> IdleTask]
    /\ rxbuf = << >>
    /\ calls = 0
    /\ late = << >>
    /\ codec = NoCodec

\* _set_float_parameter, up to the write
StartSetFloat(t) ==
    /\ tasks[t].pc = "call" /\ tasks[t].op = "set_float"
    /\ Started(t, IF tasks[t].mid \notin Motors THEN Finish(tasks[t], "false")
                  ELSE Begin(tasks[t]))

\* what the motors hold after request req reached its motor
DeviceAfter(req) ==
    IF ReqCmd(req) = WRITE_PARAM /\ ReqMotor(req) \in Motors /\ ReqIndex(req) \in DevParams
    THEN [dev EXCEPT ![ReqMotor(req)][ReqIndex(req)] = SubSeq(req, 12, 15)]
    ELSE dev

\* what the motor answers to request req
DeviceAnswer(req) ==
    LET cmd == ReqCmd(req)
        m == ReqMotor(req)
    IN  CASE cmd = ENABLE -> {Feedback(m, RUN), Feedback(m, RESET)}
          [] cmd = DISABLE -> {Feedback(m, RESET)}
          [] cmd = WRITE_PARAM -> {Feedback(m, RUN)}
          [] cmd = READ_PARAM ->
                {ParamReply(m, ReqIndex(req),
                            IF ReqIndex(req) \in DevParams THEN dev[m][ReqIndex(req)]
                            ELSE Zeros(4))}
          [] OTHER -> {}

\* the request reaches the motor and its answer reaches the reader in time
DeviceAnswers(t) ==
    /\ tasks[t].pc = "read"
    /\ writer = "open"
    /\ rxbuf = << >>
    /\ late = << >>
    /\ dev' = DeviceAfter(TxFrame(tasks[t]))
    /\ \E reply \in DeviceAnswer(TxFrame(tasks[t])) : rxbuf' = reply
    /\ UNCHANGED << enabled, mode, limits, writer, lock, tasks, sess, calls, late, codec >>

\* the request reaches the motor and its answer is still on its way
DeviceAnswersLate(t) ==
    /\ tasks[t].pc = "read"
    /\ writer = "open"
    /\ rxbuf = << >>
    /\ late = << >>
    /\ dev' = DeviceAfter(TxFrame(tasks[t]))
    /\ \E reply \in DeviceAnswer(TxFrame(tasks[t])) : late' = reply
    /\ UNCHANGED << enabled, mode, limits, writer, lock, tasks, rxbuf, sess, calls, codec >>

\* the request reaches the motor and its answer is lost (a request that is lost
\* changes nothing, and the read times out)
DeviceStores(t) ==
    /\ tasks[t].pc = "read"
    /\ writer = "open"
    /\ dev' = DeviceAfter(TxFrame(tasks[t]))
    /\ dev' # dev
    /\ UNCHANGED << enabled, mode, limits, writer, lock, tasks, rxbuf, sess, calls, late, codec >>

CallD(t, op, m, arg, val) == calls < MaxDeviceCalls /\ Call(t, op, m, arg, val)

NextD ==
    \/ \E t \in Tasks :
          \/ \E m \in Motors :
                \/ CallD(t, "enable", m, 0, FZero)
                \/ CallD(t, "disable", m, 0, FZero)
                \/ \E md \in RunModes : CallD(t, "set_mode", m, md, FZero)
                \/ CallD(t, "apply_limits", m, VELOCITY, FZero)
                \/ \E v \in FloatInputs : CallD(t, "set_float", m, LIMIT_CUR, v)
          \/ StartEnable(t)
          \/ StartDisable(t)
          \/ StartSetMode(t)
          \/ StartApplyLimits(t)
          \/ StartSetFloat(t)
          \/ Acquire(t)
          \/ DrainWrite(t)
          \/ ReadResponse(t)
          \/ ReadTimeout(t)
          \/ SleepDone(t)
          \/ DeviceAnswers(t)
          \/ DeviceAnswersLate(t)
          \/ DeviceStores(t)
    \/ Arrive

SpecDevice == InitD /\ [][NextD]_vars

\* ------------------------------------------------------------ the transport under fair scheduling
\* The stale-buffer drain of _send_and_receive taken one reader.read(1024) at a
\* time, against a device that answers well or badly or not at all and may
\* send bytes at any moment, asked or not (an answer that comes late is such
\* bytes); the event loop runs every coroutine that can go on, and every timer
\* fires.
\* how many bytes can wait in the reader before the transaction takes them
MaxPending == 1

\* the answers of the device: a feedback frame, or bytes that are no frame
RepliesL(req) == {Feedback(ReqMotor(req), RUN), Truncated}

\* the device sends a byte, asked or not
Chatter ==
    /\ writer = "open"
    /\ Len(rxbuf) < MaxPending
    /\ rxbuf' = Append(rxbuf, 0)
    /\ UNCHANGED << enabled, mode, limits, writer, lock, tasks, sess, calls, late, codec, dev >>

\* the drain: reader.read(1024) returned pending bytes within 1 ms; they are
\* discarded and the loop reads again
DrainPending(t) ==
    /\ tasks[t].pc = "drain"
    /\ rxbuf # << >>
    /\ rxbuf' = << >>
    /\ UNCHANGED << enabled, mode, limits, writer, lock, tasks, sess, calls, late, codec, dev >>

\* the drain: nothing came for 1 ms; the loop ends and the frame is written
DrainEmpty(t) == rxbuf = << >> /\ DrainWrite(t)

\* the device answers the transaction that is reading, behind the bytes that
\* wait in the reader
DeviceReplyL(t) ==
    /\ tasks[t].pc = "read"
    /\ writer = "open"
    /\ FindCRLF(rxbuf, 1) = 0
    /\ \E reply \in RepliesL(TxFrame(tasks[t])) : rxbuf' = rxbuf \o reply
    /\ UNCHANGED << enabled, mode, limits, writer, lock, tasks, sess, calls, late, codec, dev >>

NextL ==
    \/ \E t \in Tasks :
          \/ \E m \in Motors, index \in ParamInputs :
                CallD(t, "write_param", m, index, ParamValue)
          \/ StartParam(t)
          \/ Acquire(t)
          \/ DrainPending(t)
          \/ DrainEmpty(t)
          \/ ReadResponse(t)
          \/ ReadTimeout(t)
          \/ DeviceReplyL(t)
    \/ Chatter

\* every coroutine that can go on is run: a task waiting for the lock gets it
\* when it is free, a read that has bytes returns, a timer that ran out fires
FairL ==
    \A t \in Tasks :
        WF_vars(StartParam(t) \/ Acquire(t) \/ DrainPending(t) \/ DrainEmpty(t)
                    \/ ReadResponse(t) \/ ReadTimeout(t))

SpecLive == InitT /\ [][NextL]_vars /\ FairL

\* ------------------------------------------------------------ the codec alone
\* _create_frame called with arguments of its whole domain, and its result
\* decoded as the controller decodes a response.
CommandTypes == {GET_DEVICE_ID, ENABLE, DISABLE, READ_PARAM, WRITE_PARAM}
CodecMotorIds == {0, 1, 127}
CodecArea2 == {0, host_id, RUN_MODE, 49152, 65535}
CodecPayloads ==
    {Zeros(8), [i \in 1..8 |-> 255], PackH(RUN_MODE) \o << 0, 0 >> \o PackI(VELOCITY)}

InitC ==
    /\ enabled = [m \in Motors |-> FALSE]
    /\ mode = [m \in Motors |-> NoMode]
    /\ limits = MotorLimits
    /\ writer = "none"
    /\ lock = 0
    /\ tasks = [t \in Tasks |-> IdleTask]
    /\ rxbuf = << >>
    /\ sess = "new"
    /\ calls = 0
    /\ late = << >>
    /\ dev = [m \in Motors |-> FreshMemory]
    /\ \E c \in CommandTypes, m \in CodecMotorIds, a \in CodecArea2, p \in CodecPayloads :
          codec = [pc |-> "call", command_type |-> c, motor_id |-> m, data_area2 |-> a,
                   data_payload |-> p]

\* _create_frame returns the frame
Encode ==
    /\ codec.pc = "call"
    /\ codec' = [pc |-> "encoded", command_type |-> codec.command_type,
                 motor_id |-> codec.motor_id, data_area2 |-> codec.data_area2,
                 data_payload |-> codec.data_payload,
                 frame |-> CreateFrame(codec.command_type, codec.motor_id,
                                       codec.data_area2, codec.data_payload)]
    /\ UNCHANGED << enabled, mode, limits, writer, lock, tasks, rxbuf, sess, calls, late, dev >>

\* the frame is taken as a response: the check of _send_and_receive, then the
\* identifier and the status as enable reads them
Decode ==
    /\ codec.pc = "encoded"
    /\ codec' = [pc |-> "decoded", command_type |-> codec.command_type,
                 motor_id |-> codec.motor_id, data_area2 |-> codec.data_area2,
                 data_payload |-> codec.data_payload, frame |-> codec.frame,
                 accepted |-> ValidResponse(codec.frame),
                 can_id_29bit |-> CanIdOf(codec.frame),
                 status_val |-> StatusVal(codec.frame)]
    /\ UNCHANGED << enabled, mode, limits, writer, lock, tasks, rxbuf, sess, calls, late, dev >>

NextC == Encode \/ Decode

SpecCodec == InitC /\ [][NextC]_vars

\* ------------------------------------------------------------ what the wire and the callers see
\* task t takes a step
Step(t) == tasks'[t] # tasks[t]
\* task t is inside operation op
Running(t, op) == tasks[t].op = op /\ tasks[t].pc # "idle"
\* the operation of task t returns to its caller in this step
Returns(t) == tasks[t].pc # "idle" /\ tasks'[t].pc = "idle"
\* task t puts a frame on the wire in this step, and the frame
Wrote(t) == tasks[t].pc = "drain" /\ tasks'[t].pc = "read"
Written(t) == tasks'[t].log[Len(tasks'[t].log)]

\* the fields of a 17-byte frame on the wire, read from its bytes
WireCmd(f) == f[3] \div 8
WireMotor(f) == (f[5] % 8) * 32 + (f[6] \div 8)
WireIndex(f) == f[8] + 256 * f[9]
WireValue(f) == << f[12], f[13], f[14], f[15] >>
WellFormed(b) == Len(b) = 17 /\ b[1] = 65 /\ b[2] = 84 /\ b[16] = 13 /\ b[17] = 10
\* ((id32 >> 3) >> 22) & 0b11 of a response
WireStatus(b) == (b[3] \div 2) % 4
\* the bytes the transaction of task t reads from the channel in this step
BytesRead(t) ==
    IF tasks[t].pc = "read" THEN SubSeq(rxbuf, 1, Len(rxbuf) - Len(rxbuf')) ELSE << >>

IsSetpoint(f) == WireCmd(f) = WRITE_PARAM /\ WireIndex(f) \in {LOC_REF, SPD_REF, IQ_REF}
SetpointModes(index) ==
    IF index = LOC_REF THEN {POSITION_PP, POSITION_CSP}
    ELSE IF index = SPD_REF THEN {VELOCITY}
    ELSE {CURRENT}
TeardownKind(f) ==
    IF WireCmd(f) = WRITE_PARAM /\ WireIndex(f) = SPD_REF /\ WireValue(f) = << 0, 0, 0, 0 >>
    THEN "zero_velocity"
    ELSE IF WireCmd(f) = WRITE_PARAM /\ WireIndex(f) = IQ_REF /\ WireValue(f) = << 0, 0, 0, 0 >>
    THEN "zero_current"
    ELSE IF WireCmd(f) = DISABLE THEN "disable"
    ELSE "other"
\* the frames of log that are addressed to motor m, by kind
TeardownOf(log, m) ==
    LET mine == SelectSeq(log, LAMBDA f : WireMotor(f) = m)
    IN  [i \in 1..Len(mine) |-> TeardownKind(mine[i])]
AllDisabled(en, md) == \A m \in Motors : ~en[m] /\ md[m] = NoMode

\* task t's transaction ends in this step: _send_and_receive returns
EndsTx(t) ==
    /\ Step(t)
    /\ tasks[t].pc \in {"lock", "drain", "read"}
    /\ ~(tasks[t].pc = "lock" /\ tasks'[t].pc = "drain")
    /\ ~(tasks[t].pc = "drain" /\ tasks'[t].pc = "read")
\* the payload bytes of a frame
WirePayload(f) == SubSeq(f, 8, 15)

\* the magnitude bits and the significand of the float in a value slot
ValueOrd(v) == v[1] + 256 * v[2] + 65536 * v[3] + 16777216 * (v[4] % 128)
ValueSig(v) == 8388608 + (ValueOrd(v) % 8388608)
\* |a - b| <= 1e-6 * max(|a|, |b|) for the floats in two value slots: equal, or
\* normal floats of one sign and one exponent that many units in the last place
\* apart (floats of different exponents are far apart in the values used here)
WithinTolerance(a, b) ==
    \/ a = b
    \/ /\ a[4] \div 128 = b[4] \div 128
       /\ ValueOrd(a) \div 8388608 = ValueOrd(b) \div 8388608
       /\ ValueOrd(a) \div 8388608 \in 1..254
       /\ LET d == IF ValueOrd(a) > ValueOrd(b) THEN ValueOrd(a) - ValueOrd(b)
                   ELSE ValueOrd(b) - ValueOrd(a)
              big == IF ValueSig(a) > ValueSig(b) THEN ValueSig(a) ELSE ValueSig(b)
          IN  d <= 100 /\ d * 1000000 <= big

\* the limits of mode md in motor m's bundle that are set, as (parameter, value
\* bytes) in the order of the fields of the mode
PresentLimits(m, md) ==
    LET b == limits[m]
        all == CASE md = POSITION_PP ->
                      << << VEL_MAX, b.pp_vel_max >>, << ACC_SET, b.pp_acc_set >>,
                         << LIMIT_CUR, b.pp_limit_cur >> >>
                 [] md = VELOCITY ->
                      << << LIMIT_CUR, b.velocity_limit_cur >>,
                         << ACC_RAD, b.velocity_acc_rad >> >>
                 [] md = POSITION_CSP ->
                      << << LIMIT_SPD, b.csp_limit_spd >>, << LIMIT_CUR, b.csp_limit_cur >> >>
    IN  IF b.is_none THEN << >> ELSE SelectSeq(all, LAMBDA f : Len(f[2]) = 3)

\* how many frames of command cmd for parameter index the call has sent
FramesOf(log, cmd, index) ==
    Len(SelectSeq(log, LAMBDA f : WireCmd(f) = cmd /\ WireIndex(f) = index))
\* no frame was sent twice in the call
NoFrameTwice(log) == \A i, j \in 1..Len(log) : log[i] = log[j] => i = j
\* the parameters an operation writes with verification
VerifiedParams == {RUN_MODE, VEL_MAX, ACC_SET, LIMIT_CUR, ACC_RAD, LIMIT_SPD}

\* ------------------------------------------------------------ claims
\* C1: at most one transaction is in flight: a task that drains, writes or
\* reads holds the lock, so no two tasks are between drain and response at once.
C1_SingleFlight ==
    \A t \in Tasks : tasks[t].pc \in {"drain", "read"} =>
        /\ lock = t
        /\ \A u \in Tasks \ {t} : tasks[u].pc \notin {"drain", "read"}
\* a transaction is reading while another task waits for the lock
C1_Witness ==
    \E t, u \in Tasks : t # u /\ tasks[t].pc = "read" /\ tasks[u].pc = "lock" /\ lock = t

\* C2: enable(id) on a registered motor sets enabled and returns success exactly
\* when its transaction read a well-formed response with status RUN; in every
\* other case it returns failure, and it never changes anything else of the
\* motors' enabled flags and modes.
C2_EnableIffRun ==
    [][\A t \in Tasks :
         (Step(t) /\ Running(t, "enable") /\ tasks[t].mid \in Motors) =>
            IF Returns(t) /\ WellFormed(BytesRead(t)) /\ WireStatus(BytesRead(t)) = 2
            THEN /\ enabled' = [enabled EXCEPT ![tasks[t].mid] = TRUE]
                 /\ mode' = mode
                 /\ tasks'[t].res = "true"
            ELSE /\ enabled' = enabled
                 /\ mode' = mode
                 /\ Returns(t) => tasks'[t].res = "false"]_vars
\* enable has returned success on a motor that is now enabled
C2_Witness ==
    \E t \in Tasks :
        /\ tasks[t].op = "enable" /\ tasks[t].pc = "idle" /\ tasks[t].res = "true"
        /\ tasks[t].mid \in Motors /\ enabled[tasks[t].mid]

\* C3: set_mode called on a motor whose enabled flag is true returns an error
\* without a wire transaction, and a mode becomes a run mode only while the
\* motor's enabled flag is false.
C3_SetModeRefusedWhileEnabled ==
    [][/\ \A t \in Tasks :
            (Step(t) /\ tasks[t].pc = "call" /\ tasks[t].op = "set_mode"
                /\ tasks[t].mid \in Motors /\ enabled[tasks[t].mid])
            => (tasks'[t].pc = "idle" /\ tasks'[t].res = "false")
       /\ \A m \in Motors :
            (mode'[m] # mode[m] /\ mode'[m] # NoMode) => ~enabled[m]]_vars

\* C4: apply_*_limits on a registered motor that is not enabled or is in another
\* mode returns failure, makes no transaction and changes no enabled flag or mode.
C4_ApplyLimitsRefused ==
    [][\A t \in Tasks :
         (Step(t) /\ tasks[t].pc = "call" /\ tasks[t].op = "apply_limits"
             /\ tasks[t].mid \in Motors
             /\ ~(enabled[tasks[t].mid] /\ mode[tasks[t].mid] = tasks[t].arg))
         => /\ tasks'[t].pc = "idle"
            /\ tasks'[t].res = "false"
            /\ tasks'[t].ntx = 0
            /\ enabled' = enabled /\ mode' = mode /\ rxbuf' = rxbuf /\ lock' = lock]_vars
\* apply limits was refused on an enabled motor that is in some run mode
C4_Witness ==
    \E t \in Tasks :
        /\ tasks[t].op = "apply_limits" /\ tasks[t].pc = "idle" /\ tasks[t].res = "false"
        /\ tasks[t].ntx = 0 /\ tasks[t].mid \in Motors
        /\ enabled[tasks[t].mid] /\ mode[tasks[t].mid] # NoMode

\* C5: disable(id) on a registered motor makes one disable transaction and, when
\* it returns, the motor is locally disabled with mode None, whatever the
\* outcome of the transaction; before that it changes nothing.
C5_DisableUnconditional ==
    [][\A t \in Tasks :
         (Step(t) /\ Running(t, "disable") /\ tasks[t].mid \in Motors) =>
            IF Returns(t)
            THEN /\ enabled' = [enabled EXCEPT ![tasks[t].mid] = FALSE]
                 /\ mode' = [mode EXCEPT ![tasks[t].mid] = NoMode]
                 /\ tasks'[t].ntx = 1
                 /\ \A i \in 1..Len(tasks[t].log) :
                        /\ WireCmd(tasks[t].log[i]) = DISABLE
                        /\ WireMotor(tasks[t].log[i]) = tasks[t].mid
                 /\ Len(tasks[t].log) <= 1
            ELSE enabled' = enabled /\ mode' = mode]_vars
\* a disable has returned after one transaction while another motor is enabled
C5_Witness ==
    \E t \in Tasks :
        /\ tasks[t].op = "disable" /\ tasks[t].pc = "idle" /\ tasks[t].ntx = 1
        /\ tasks[t].mid \in Motors /\ ~enabled[tasks[t].mid]
        /\ \E m \in Motors : enabled[m]

\* C6: a setpoint frame reaches the wire only for a motor that is enabled and in
\* the run mode the setpoint belongs to.
C6_SetpointOnlyWhenEnabledInMode ==
    [][\A t \in Tasks :
         (Wrote(t) /\ IsSetpoint(Written(t))) =>
            /\ WireMotor(Written(t)) \in Motors
            /\ enabled[WireMotor(Written(t))]
            /\ mode[WireMotor(Written(t))] \in SetpointModes(WireIndex(Written(t)))]_vars

\* C7: an enable command reaches the wire only for a motor whose mode is not None.
C7_EnableOnlyAfterMode ==
    [][\A t \in Tasks :
         (Wrote(t) /\ WireCmd(Written(t)) = ENABLE) =>
            /\ WireMotor(Written(t)) \in Motors
            /\ mode[WireMotor(Written(t))] # NoMode]_vars

\* C8: a setpoint operation on a registered motor makes exactly one transaction,
\* a parameter write, never a read-back, and changes no enabled flag or mode.
C8_SetpointSingleWrite ==
    [][\A t \in Tasks :
         (Step(t) /\ tasks[t].pc # "idle" /\ tasks[t].op \in {"set_pos", "set_vel", "set_cur"}
             /\ tasks[t].mid \in Motors) =>
            /\ enabled' = enabled
            /\ mode' = mode
            /\ tasks'[t].pc # "sleep"
            /\ tasks'[t].ntx = 1
            /\ Len(tasks'[t].log) <= 1
            /\ Wrote(t) =>
                  /\ WireCmd(Written(t)) = WRITE_PARAM
                  /\ WireMotor(Written(t)) = tasks[t].mid
                  /\ WireIndex(Written(t)) =
                        (CASE tasks[t].op = "set_pos" -> LOC_REF
                           [] tasks[t].op = "set_vel" -> SPD_REF
                           [] tasks[t].op = "set_cur" -> IQ_REF)]_vars
\* a setpoint write has returned on a motor that is not enabled
C8_Witness ==
    \E t \in Tasks :
        /\ tasks[t].op \in {"set_pos", "set_vel", "set_cur"} /\ tasks[t].pc = "idle"
        /\ tasks[t].ntx = 1 /\ tasks[t].mid \in Motors /\ writer = "open"
        /\ ~enabled[tasks[t].mid]

\* C9: when the release of a session with an open channel ends, the wire has
\* seen for every motor a zero-velocity write, a zero-current write and a
\* disable, in that order, whatever the outcomes of the teardown transactions.
C9_TeardownPerMotor ==
    [][(Running(Owner, "aexit") /\ Returns(Owner)) =>
          \A m \in Motors :
              TeardownOf(tasks[Owner].log, m) = << "zero_velocity", "zero_current", "disable" >>]_vars
\* the release is at its last transaction and has written all its frames
C9_Witness ==
    /\ Running(Owner, "aexit")
    /\ tasks[Owner].pc = "read"
    /\ Len(tasks[Owner].log) = 3 * NMotors

C11_ConnectAllOrNothing ==
    [][\A t \in Tasks :
         /\ (Step(t) /\ tasks[t].pc = "idle" /\ tasks'[t].op = "connect") =>
                \/ writer' = "open" /\ tasks'[t].pc = "lock" /\ tasks'[t].ok
                \/ /\ tasks'[t].pc = "idle" /\ tasks'[t].res = "false" /\ tasks'[t].ntx = 0
                   /\ writer' # "open" /\ sess' = "failed"
         /\ (Wrote(t) /\ Running(t, "connect")) =>
                /\ WireCmd(Written(t)) = GET_DEVICE_ID
                /\ WireMotor(Written(t)) = MotorOrder[tasks[t].ntx]
                /\ WirePayload(Written(t)) = << 0, 0, 0, 0, 0, 0, 0, 0 >>
         /\ (EndsTx(t) /\ Running(t, "connect")) =>
                LET good == tasks[t].ok /\ WellFormed(BytesRead(t))
                IN  IF Returns(t)
                    THEN /\ tasks'[t].ntx = NMotors
                         /\ tasks'[t].res = (IF good THEN "true" ELSE "false")
                         /\ good => sess' = "active"
                         /\ ~good => (writer' # "open" /\ sess' = "failed")
                    ELSE /\ tasks'[t].ok = good
                         /\ tasks[t].ntx < NMotors
                         /\ tasks'[t].ntx = tasks[t].ntx + 1]_vars
\* connect has probed every motor, failed, and closed the channel
C11_Witness ==
    /\ tasks[Owner].op = "connect" /\ tasks[Owner].pc = "idle" /\ tasks[Owner].res = "false"
    /\ tasks[Owner].ntx = NMotors
    /\ writer = "closed" /\ sess = "failed"

\* C12: a transaction that times out yields no response, and a transaction
\* returns a response to its caller only when the bytes it read are the device's
\* reply to its own request: bytes of an abandoned exchange are never the
\* response of a later transaction.
C12_NoStaleResponse ==
    [][\A t \in Tasks :
         (EndsTx(t) /\ Returns(t) /\ tasks[t].op \in {"write_param", "read_param"}) =>
            /\ BytesRead(t) = << >> => tasks'[t].resp = NoResponse
            /\ tasks'[t].resp # NoResponse =>
                  BytesRead(t) \in Replies(tasks[t].log[Len(tasks[t].log)])]_vars

\* C13: _send_and_receive gives its caller a response only when the bytes read
\* are 17 long, begin with 'AT' and end with 0x0D 0x0A, and then it is those
\* bytes; a frame of another length, a wrong header, a timeout, an I/O error and
\* a channel that is not open all give no response.
C13_ResponseOnlyWellFormed ==
    [][\A t \in Tasks :
         /\ (EndsTx(t) /\ tasks[t].op = "write_param") =>
                tasks'[t].resp = (IF WellFormed(BytesRead(t)) THEN BytesRead(t) ELSE << >>)
         /\ (EndsTx(t) /\ tasks[t].op = "read_param") =>
                tasks'[t].resp = (IF WellFormed(BytesRead(t)) THEN SubSeq(BytesRead(t), 12, 15)
                                  ELSE << >>)]_vars
\* _write_parameter has returned the 17 bytes of a response
C13_Witness ==
    \E t \in Tasks :
        /\ tasks[t].op = "write_param" /\ tasks[t].pc = "idle"
        /\ Len(tasks[t].resp) = 17

\* C14: a malformed response is reported to the caller of the transport as an
\* outcome other than the no-response outcome of a timeout.
C14_MalformedDistinct ==
    [][\A t \in Tasks :
         (EndsTx(t) /\ tasks[t].op = "write_param"
             /\ BytesRead(t) # << >> /\ ~WellFormed(BytesRead(t)))
         => tasks'[t].resp # NoResponse]_vars

\* C15: an operation called with a motor id that is not registered returns an
\* explicit failure or no-op at once: no exception, no transaction, no change of
\* any motor's enabled flag or mode.
C15_UnknownMotorRefused ==
    [][\A t \in Tasks :
         (Step(t) /\ tasks[t].pc = "call" /\ tasks[t].mid \notin Motors
             /\ tasks[t].op \in {"enable", "disable", "set_mode", "apply_limits",
                                 "set_pos", "set_vel", "set_cur"})
         => /\ tasks'[t].pc = "idle"
            /\ tasks'[t].res \in {"false", "void"}
            /\ tasks'[t].ntx = 0
            /\ enabled' = enabled /\ mode' = mode]_vars

C17_VerifiedFloatWrite ==
    [][\A t \in Tasks :
         (EndsTx(t) /\ tasks[t].op = "apply_limits") =>
            IF tasks[t].step % 2 = 0
            THEN tasks'[t].pc = "sleep" /\ tasks'[t].ok = tasks[t].ok
            ELSE LET read == BytesRead(t)
                     verified ==
                         /\ WellFormed(read)
                         /\ WithinTolerance(WireValue(read),
                                            WireValue(tasks[t].log[Len(tasks[t].log) - 1]))
                     success == tasks[t].ok /\ verified
                 IN  IF Returns(t)
                     THEN tasks'[t].res = (IF success THEN "true" ELSE "false")
                     ELSE tasks'[t].ok = success]_vars
\* the first limit was written and read back, the verification failed, and
\* apply_*_limits goes on to its next limit
C17_Witness ==
    \E t \in Tasks :
        /\ tasks[t].op = "apply_limits" /\ tasks[t].pc = "lock"
        /\ tasks[t].step = 2 /\ ~tasks[t].ok /\ Len(tasks[t].log) = 2

\* C18 as stated: set_mode on a registered motor returns success and records the
\* mode exactly when its read-back is a well-formed response whose value slot,
\* as a 4-byte little-endian unsigned integer, is the mode's code; otherwise it
\* returns failure and leaves the mode as it was.
C18_ModeExactU32 ==
    [][\A t \in Tasks :
         (EndsTx(t) /\ tasks[t].op = "set_mode" /\ tasks[t].step = 1
             /\ tasks[t].mid \in Motors) =>
            IF WellFormed(BytesRead(t))
               /\ WireValue(BytesRead(t)) = << tasks[t].arg, 0, 0, 0 >>
            THEN /\ tasks'[t].res = "true"
                 /\ mode' = [mode EXCEPT ![tasks[t].mid] = tasks[t].arg]
            ELSE /\ tasks'[t].res = "false"
                 /\ mode' = mode]_vars
\* C18 amended: the read-back is compared by the first byte of the value slot
\* alone; set_mode returns success and records the mode exactly when that byte
\* of a well-formed response is the mode's code, and never changes an enabled flag.
C18_ModeFirstByte ==
    [][\A t \in Tasks :
         (EndsTx(t) /\ tasks[t].op = "set_mode" /\ tasks[t].mid \in Motors) =>
            /\ enabled' = enabled
            /\ IF tasks[t].step = 0
               THEN tasks'[t].pc = "sleep" /\ mode' = mode
               ELSE IF WellFormed(BytesRead(t))
                       /\ WireValue(BytesRead(t))[1] = tasks[t].arg
                    THEN /\ tasks'[t].res = "true"
                         /\ mode' = [mode EXCEPT ![tasks[t].mid] = tasks[t].arg]
                    ELSE /\ tasks'[t].res = "false"
                         /\ mode' = mode]_vars
\* set_mode has returned success on a motor that is not enabled
C18_Witness ==
    \E t \in Tasks :
        /\ tasks[t].op = "set_mode" /\ tasks[t].pc = "idle" /\ tasks[t].res = "true"
        /\ tasks[t].ntx = 2 /\ tasks[t].mid \in Motors
        /\ mode[tasks[t].mid] \in RunModes /\ ~enabled[tasks[t].mid]

\* C19: a motor's mode is None at first; it changes only when a set_mode on that
\* motor returns success, to the mode of that call, and when a disable of that
\* motor (by disable or by the release) ends, to None; every successful set_mode
\* and every disable does change it so.  Hence the mode is None unless a
\* set_mode succeeded since the last disable, and then it is the mode of the
\* latest success.
C19_ModeHistory ==
    /\ \A m \in Motors : mode[m] = NoMode
    /\ [][\A m \in Motors :
            /\ mode'[m] # mode[m] =>
                  \E t \in Tasks :
                     \/ /\ Returns(t) /\ tasks[t].op = "set_mode" /\ tasks[t].mid = m
                        /\ tasks'[t].res = "true" /\ mode'[m] = tasks[t].arg
                     \/ /\ EndsTx(t) /\ mode'[m] = NoMode
                        /\ \/ tasks[t].op = "disable" /\ tasks[t].mid = m
                           \/ /\ tasks[t].op = "aexit" /\ tasks[t].step >= 2 * NMotors
                              /\ MotorOrder[tasks[t].step - 2 * NMotors + 1] = m
            /\ \A t \in Tasks :
                  /\ (Returns(t) /\ tasks[t].op = "set_mode" /\ tasks[t].mid = m
                         /\ tasks'[t].res = "true") => mode'[m] = tasks[t].arg
                  /\ (Returns(t) /\ tasks[t].op = "disable" /\ tasks[t].mid = m)
                         => mode'[m] = NoMode]_vars
\* a set_mode succeeded on a motor and a disable of the same motor has put its
\* mode back to None
C19_Witness ==
    \E t, u \in Tasks :
        /\ tasks[t].op = "set_mode" /\ tasks[t].pc = "idle" /\ tasks[t].res = "true"
        /\ tasks[u].op = "disable" /\ tasks[u].pc = "idle" /\ tasks[u].ntx = 1
        /\ tasks[u].mid = tasks[t].mid /\ tasks[t].mid \in Motors
        /\ mode[tasks[t].mid] = NoMode

\* C20: apply_*_limits on an enabled motor in the target mode returns success at
\* once, without a transaction, when the motor has no bundle or no limit of the
\* mode is set; otherwise it writes and reads back each limit of the mode that is
\* set, in order, none that is absent, goes on after a failed verification, and
\* returns success only if no verification failed.
C20_ApplyLimitsEveryField ==
    [][\A t \in Tasks :
         (Step(t) /\ tasks[t].op = "apply_limits" /\ tasks[t].pc # "idle"
             /\ tasks[t].mid \in Motors) =>
            LET tk == tasks[t]
                present == PresentLimits(tk.mid, tk.arg)
            IN  /\ (tk.pc = "call" /\ enabled[tk.mid] /\ mode[tk.mid] = tk.arg) =>
                      IF present = << >>
                      THEN /\ tasks'[t].pc = "idle" /\ tasks'[t].res = "true"
                           /\ tasks'[t].ntx = 0
                      ELSE tasks'[t].pc = "lock"
                /\ Wrote(t) =>
                      LET k == Len(tk.log)
                          f == present[(k \div 2) + 1]
                      IN  /\ k < 2 * Len(present)
                          /\ WireMotor(Written(t)) = tk.mid
                          /\ WireIndex(Written(t)) = f[1]
                          /\ IF k % 2 = 0
                             THEN /\ WireCmd(Written(t)) = WRITE_PARAM
                                  /\ WireValue(Written(t)) = PackF(f[2])
                             ELSE WireCmd(Written(t)) = READ_PARAM
                /\ EndsTx(t) =>
                      IF Returns(t)
                      THEN /\ tasks'[t].ntx = 2 * Len(present)
                           /\ tasks'[t].res = "true" => tk.ok
                      ELSE tasks'[t].ok => tk.ok]_vars
\* the first limit failed its verification and the read-back of the second limit
\* is on the wire
C20_Witness ==
    \E t \in Tasks :
        /\ tasks[t].op = "apply_limits" /\ tasks[t].pc = "read"
        /\ tasks[t].step = 3 /\ ~tasks[t].ok /\ Len(tasks[t].log) = 4

\* C21: no operation retries.  enable, disable and each setpoint operation make
\* at most one transaction per call; set_mode and each verified float write of
\* apply_limits send at most one write and one read of their parameter; and no
\* call sends a frame a second time, whatever became of the first.
C21_NoRetry ==
    \A t \in Tasks :
        LET tk == tasks[t]
        IN  /\ NoFrameTwice(tk.log)
            /\ tk.op \in {"enable", "disable", "set_pos", "set_vel", "set_cur"} =>
                  tk.ntx <= 1 /\ Len(tk.log) <= 1
            /\ tk.op = "set_mode" =>
                  /\ tk.ntx <= 2 /\ Len(tk.log) <= 2
                  /\ FramesOf(tk.log, WRITE_PARAM, RUN_MODE) <= 1
                  /\ FramesOf(tk.log, READ_PARAM, RUN_MODE) <= 1
            /\ tk.op = "apply_limits" =>
                  /\ tk.mid \notin Motors => tk.ntx = 0
                  /\ (tk.mid \in Motors /\ tk.pc # "idle") =>
                        tk.ntx <= 2 * Len(PresentLimits(tk.mid, tk.arg))
                  /\ \A index \in VerifiedParams :
                        /\ FramesOf(tk.log, WRITE_PARAM, index) <= 1
                        /\ FramesOf(tk.log, READ_PARAM, index) <= 1
\* an enable returned failure after its one transaction while a set_mode whose
\* write was sent is reading back
C21_Witness ==
    \E t, u \in Tasks :
        /\ tasks[t].op = "enable" /\ tasks[t].pc = "idle"
        /\ tasks[t].res = "false" /\ tasks[t].ntx = 1
        /\ tasks[u].op = "set_mode" /\ tasks[u].pc = "read" /\ Len(tasks[u].log) = 2

\* C22 (as stated): for every command type, motor id and secondary id the frame
\* is 'AT', the big-endian bytes of ((cmdType<<24 | secondaryId<<8 | motorId) << 3)
\* | 0b100 with the secondary id that was given, 0x08, the payload, CR LF.
C22_EncodeGivenSecondaryId ==
    codec.pc \in {"encoded", "decoded"} =>
        LET c == codec.command_type
            m == codec.motor_id
            a == codec.data_area2
        IN  codec.frame = AT \o << c * 8 + a \div 8192, (a \div 32) % 256,
                                   (a % 32) * 8 + m \div 32, (m % 32) * 8 + 4 >>
                             \o << 8 >> \o codec.data_payload \o CRLF
\* C22 (amended): the frame is 17 bytes: 'AT', the big-endian bytes of
\* ((cmdType<<24 | s<<8 | motorId) << 3) | 0b100, 0x08, the payload verbatim,
\* CR LF, where s is the secondary id that was given for READ_PARAM and
\* WRITE_PARAM and the host id for GET_DEVICE_ID, ENABLE and DISABLE; and the
\* frame of (0x00, motor 127, secondary id 253, eight zero bytes) is
\* 41 54 00 07 EB FC 08 00 00 00 00 00 00 00 00 0D 0A.
C22_EncodeLayout ==
    codec.pc \in {"encoded", "decoded"} =>
        LET c == codec.command_type
            m == codec.motor_id
            a == IF c \in {READ_PARAM, WRITE_PARAM} THEN codec.data_area2 ELSE 253
        IN  /\ Len(codec.frame) = 17
            /\ codec.frame = AT \o << c * 8 + a \div 8192, (a \div 32) % 256,
                                      (a % 32) * 8 + m \div 32, (m % 32) * 8 + 4 >>
                                \o << 8 >> \o codec.data_payload \o CRLF
            /\ (c = 0 /\ m = 127 /\ codec.data_area2 = 253 /\ codec.data_payload = Zeros(8)) =>
                  codec.frame = << 65, 84, 0, 7, 235, 252, 8, 0, 0, 0, 0, 0, 0, 0, 0, 13, 10 >>
\* the frame of the concrete vector has been built
C22_Witness ==
    /\ codec.pc = "encoded"
    /\ codec.command_type = 0 /\ codec.motor_id = 127 /\ codec.data_area2 = 253
    /\ codec.data_payload = Zeros(8)
    /\ codec.frame = << 65, 84, 0, 7, 235, 252, 8, 0, 0, 0, 0, 0, 0, 0, 0, 13, 10 >>

\* C23: the frame _create_frame builds is 17 bytes and passes the check of a
\* response, and bytes 2..5 read as a big-endian number and shifted right by 3
\* give back the 29-bit identifier that was encoded, so that the status
\* (id >> 22) & 0b11 and the error flags (id >> 16) & 0x3F are bits 14..15 and
\* 8..13 of the secondary id in the frame.
C23_FrameRoundTrip ==
    codec.pc = "decoded" =>
        LET s == IF codec.command_type \in {GET_DEVICE_ID, ENABLE, DISABLE}
                 THEN host_id ELSE codec.data_area2
        IN  /\ Len(codec.frame) = 17
            /\ codec.accepted
            /\ codec.can_id_29bit =
                  CanId29bit(codec.command_type, codec.motor_id, codec.data_area2)
            /\ codec.can_id_29bit = codec.command_type * 16777216 + s * 256 + codec.motor_id
            /\ codec.status_val = (s \div 16384) % 4
            /\ (codec.can_id_29bit \div 65536) % 64 = (s \div 256) % 64
\* a frame whose secondary id has both status bits set has been decoded
C23_Witness ==
    /\ codec.pc = "decoded"
    /\ codec.command_type = READ_PARAM /\ codec.data_area2 = 65535 /\ codec.motor_id = 127
    /\ codec.accepted /\ codec.status_val = 3

\* C26: in every interleaving, a limit write of apply_*_limits for mode M is put
\* on the wire only while the motor is recorded as enabled and in mode M.
C26_LimitWriteOnlyInMode ==
    [][\A t \in Tasks :
         (Wrote(t) /\ tasks[t].op = "apply_limits" /\ WireCmd(Written(t)) = WRITE_PARAM) =>
            /\ enabled[tasks[t].mid]
            /\ mode[tasks[t].mid] = tasks[t].arg]_vars

\* C24: against motors that store what is written and return it on a read, a
\* verified float write reports success, the first time and when it is made
\* again: whenever its read-back is answered with the value the motor holds and
\* that value is the one the call wrote, the call returns success.
C24_SameWriteSucceeds ==
    [][\A t \in Tasks :
         LET tk == tasks[t]
         IN  (/\ tk.op = "set_float" /\ tk.pc = "read" /\ tk.step = 1
              /\ Returns(t)
              /\ dev[tk.mid][tk.arg] = PackF(tk.val)
              /\ BytesRead(t) = ParamReply(tk.mid, tk.arg, dev[tk.mid][tk.arg]))
             => tasks'[t].res = "true"]_vars

\* C27: enable(id) succeeds, and the motor's enabled flag becomes true, only on a
\* frame of motor id itself with status RUN: never on a frame of another motor,
\* such as the late reply to an earlier transaction that timed out.
C27_EnableOnlyOnOwnReply ==
    [][\A t \in Tasks :
         (tasks[t].op = "enable" /\ Returns(t)
             /\ (tasks'[t].res = "true" \/ enabled'[tasks[t].mid] # enabled[tasks[t].mid]))
         => BytesRead(t) = Feedback(tasks[t].mid, RUN)]_vars

\* C28: whatever requests and responses were lost, once the operations have
\* returned a motor whose recorded mode is a run mode M holds M in its run-mode
\* parameter.
C28_RecordedModeIsDeviceMode ==
    (\A t \in Tasks : tasks[t].pc = "idle") =>
        \A m \in Motors : mode[m] # NoMode => dev[m][RUN_MODE] = PackI(mode[m])

\* C29: when the bytes the device sent in time are one well-formed 17-byte frame
\* ('AT' first, CR LF last), the transaction that reads them returns exactly that
\* frame, whatever its identifier and payload bytes are (_read_parameter hands
\* on bytes 11..14 of it).
C29_WellFormedReplyReturned ==
    [][\A t \in Tasks :
         (tasks[t].pc = "read" /\ Returns(t) /\ WellFormed(rxbuf) /\ rxbuf' # rxbuf) =>
            tasks'[t].resp = (IF tasks[t].op = "read_param" THEN Slice(rxbuf, 11, 15)
                              ELSE rxbuf)]_vars

\* C30: no step of set_mode changes an enabled flag, no step of enable changes a
\* recorded mode, and no step of apply_*_limits or of a setpoint operation
\* changes either, whether the operation succeeds or fails.
C30_FrameOfOperations ==
    [][\A t \in Tasks :
         (Step(t) /\ tasks[t].pc # "idle") =>
            /\ tasks[t].op = "set_mode" => enabled' = enabled
            /\ tasks[t].op = "enable" => mode' = mode
            /\ tasks[t].op \in {"apply_limits", "set_pos", "set_vel", "set_cur"} =>
                  enabled' = enabled /\ mode' = mode]_vars
\* a velocity setpoint was written to a motor that is still enabled and in
\* velocity mode
C30_Witness ==
    \E t \in Tasks :
        /\ tasks[t].op = "set_vel" /\ tasks[t].pc = "idle" /\ tasks[t].ntx = 1
        /\ tasks[t].mid \in Motors
        /\ enabled[tasks[t].mid] /\ mode[tasks[t].mid] = VELOCITY

\* C25: under fair scheduling every transaction completes and releases the lock,
\* and every operation of every caller returns, whatever the device does
\* (silent, late, malformed bytes, bytes without end).
C25_EveryOperationReturns ==
    /\ \A t \in Tasks : (lock = t) ~> (lock # t)
    /\ \A t \in Tasks : (tasks[t].pc # "idle") ~> (tasks[t].pc = "idle")


\* C31: no step of enable, disable, set_mode, apply_*_limits or a setpoint
\* operation addressed to one motor changes the enabled flag or the recorded
\* mode of another registered motor, in any interleaving of the callers.
C31_OtherMotorsUntouched ==
    [][\A t \in Tasks :
         (Step(t) /\ tasks[t].pc # "idle"
            /\ tasks[t].op \in {"enable", "disable", "set_mode", "apply_limits",
                                "set_pos", "set_vel", "set_cur"}) =>
            \A B \in Motors \ {tasks[t].mid} :
                enabled'[B] = enabled[B] /\ mode'[B] = mode[B]]_vars
\* a disable of one motor has returned and another motor is still enabled in the
\* mode that was set for it
C31_Witness ==
    \E t \in Tasks :
        /\ tasks[t].op = "disable" /\ tasks[t].pc = "idle" /\ tasks[t].ntx = 1
        /\ tasks[t].mid \in Motors
        /\ \E B \in Motors \ {tasks[t].mid} : enabled[B] /\ mode[B] # NoMode


\* C32: while the session is being released, a disable frame reaches the wire
\* only after a zero-velocity write and a zero-current write have been written
\* for every registered motor.
C32_ZeroSetpointsBeforeDisable ==
    [][\A t \in Tasks :
         (sess = "exiting" /\ Wrote(t) /\ WireCmd(Written(t)) = DISABLE) =>
            \A m \in Motors :
               \E i, j \in 1..Len(tasks[Owner].log) :
                  /\ WireMotor(tasks[Owner].log[i]) = m
                  /\ TeardownKind(tasks[Owner].log[i]) = "zero_velocity"
                  /\ WireMotor(tasks[Owner].log[j]) = m
                  /\ TeardownKind(tasks[Owner].log[j]) = "zero_current"]_vars
\* the release has written its first disable and waits for the answer
C32_Witness ==
    /\ sess = "exiting"
    /\ tasks[Owner].op = "aexit" /\ tasks[Owner].pc = "read"
    /\ Len(tasks[Owner].log) = 2 * NMotors + 1
    /\ WireCmd(tasks[Owner].log[2 * NMotors + 1]) = DISABLE


\* C33: _read_parameter writes a READ_PARAM frame to its motor whose payload is
\* the index as 16 bits little-endian and six zero bytes, and returns bytes
\* 11..14 of a 17-byte response, nothing when the transaction failed;
\* _write_parameter with an int or a float writes a WRITE_PARAM frame whose
\* payload is the index as 16 bits little-endian, two zero bytes and the value in
\* four bytes little-endian (an unsigned 32-bit integer, or a float32), and
\* returns the response as it is.
C33_ParameterAccess ==
    [][\A t \in Tasks :
         LET tk == tasks[t]
             response == BytesRead(t)
         IN  /\ (Wrote(t) /\ tk.op = "read_param") =>
                   /\ Len(Written(t)) = 17
                   /\ WireCmd(Written(t)) = READ_PARAM
                   /\ WireMotor(Written(t)) = tk.mid
                   /\ WirePayload(Written(t)) =
                         << tk.arg % 256, tk.arg \div 256, 0, 0, 0, 0, 0, 0 >>
             /\ (Wrote(t) /\ tk.op = "write_param") =>
                   /\ Len(Written(t)) = 17
                   /\ WireCmd(Written(t)) = WRITE_PARAM
                   /\ WireMotor(Written(t)) = tk.mid
                   /\ SubSeq(WirePayload(Written(t)), 1, 4) =
                         << tk.arg % 256, tk.arg \div 256, 0, 0 >>
                   /\ Len(tk.val) \in {1, 3}
                   /\ IF Len(tk.val) = 1
                      THEN LET b == WireValue(Written(t))
                           IN  b[1] + 256 * b[2] + 65536 * b[3] + 16777216 * b[4] = tk.val[1]
                      ELSE UnpackF(WireValue(Written(t))) = tk.val
             /\ (Returns(t) /\ tk.op = "read_param") =>
                   tasks'[t].resp =
                      (IF WellFormed(response)
                       THEN << response[12], response[13], response[14], response[15] >>
                       ELSE << >>)
             /\ (Returns(t) /\ tk.op = "write_param" /\ Len(tk.val) \in {1, 3}) =>
                   tasks'[t].resp = (IF WellFormed(response) THEN response ELSE << >>)]_vars
\* a read has returned four bytes of a response, and the frame of an int value
\* is on the wire, least significant byte first
C33_Witness ==
    \E t, u \in Tasks :
        /\ tasks[u].op = "read_param" /\ tasks[u].pc = "idle"
        /\ Len(tasks[u].resp) = 4
        /\ tasks[t].op = "write_param" /\ tasks[t].pc = "read"
        /\ tasks[t].val = << ParamInt >>
        /\ WireValue(tasks[t].log[1]) = << 2, 1, 0, 0 >>
====
